---- MODULE Spec2Model ----
(***************************************************************************)
(* Model of package handler of gilcrest/go-api-basic: the middleware chain *)
(* built by LoggerHandlerChain, JSONContentTypeHandler, AccessTokenHandler,*)
(* NewStandardResponse and DecoderErr, together with the alice / hlog      *)
(* library calls they make and the errs / auth collaborators they use.     *)
(*                                                                         *)
(* Go strings are sequences of one-character strings, so that prefix       *)
(* stripping and path escaping are computed character by character.        *)
(***************************************************************************)
EXTENDS Naturals, Sequences, FiniteSets, TLC

\* -------------------------------------------------------------- bounds
\* Requests that may be in flight.
NumReqs == 2
\* Pieces an Authorization value is concatenated from.
MaxPieces == 3
\* Correlation identifiers xid.New() can return.
NumIDs == 3
\* alice.Chain values the route set-up may allocate.
MaxChains == 3

Reqs == 1..NumReqs
IDs == 1..NumIDs

\* ------------------------------------------------------------- strings
Empty == <<>>
SP == <<" ">>
\* auth.BearerTokenType
BearerTokenType == <<"B", "e", "a", "r", "e", "r">>
LowerBearer == <<"b", "e", "a", "r", "e", "r">>
Basic == <<"B", "a", "s", "i", "c">>
Abc == <<"a", "b", "c">>

\* strings.HasPrefix
HasPrefix(s, p) == Len(s) >= Len(p) /\ SubSeq(s, 1, Len(p)) = p

\* strings.TrimPrefix with every leading repetition of the prefix removed.
RECURSIVE TrimPrefixRepeated(_, _)
TrimPrefixRepeated(s, p) ==
    IF p # Empty /\ HasPrefix(s, p)
    THEN TrimPrefixRepeated(SubSeq(s, Len(p) + 1, Len(s)), p)
    ELSE s

\* strings.TrimPrefix: s without the leading p, or s itself.
TrimPrefix(s, p) ==
    IF HasPrefix(s, p) THEN SubSeq(s, Len(p) + 1, Len(s)) ELSE s

\* Authorization values: concatenations of at most MaxPieces pieces.
Pieces ==
    { BearerTokenType \o SP, BearerTokenType, SP, LowerBearer \o SP,
      Basic \o SP, Abc }

RECURSIVE Concats(_)
Concats(n) ==
    IF n = 0 THEN {Empty}
    ELSE LET prev == Concats(n - 1)
         IN prev \cup { s \o p : s \in prev, p \in Pieces }

AuthValues == Concats(MaxPieces)
\* Values a request may carry after its first Authorization value.
LaterValues == { Empty, BearerTokenType \o SP \o Abc }

\* r.Header["Authorization"]: absent, present with no value, one value, or
\* several values.
AuthHeaders ==
    { [ok |-> FALSE, v |-> <<>>], [ok |-> TRUE, v |-> <<>>] }
    \cup { [ok |-> TRUE, v |-> <<a>>] : a \in AuthValues }
    \cup { [ok |-> TRUE, v |-> <<a, b>>] : a \in AuthValues, b \in LaterValues }

\* ---------------------------------------------------------------- URLs
\* url.shouldEscape in path mode, over the characters the model uses.
ShouldEscape(c) == c \in {" ", "?", "%"}

HexOf(c) ==
    CASE c = " " -> <<"%", "2", "0">>
      [] c = "?" -> <<"%", "3", "F">>
      [] c = "%" -> <<"%", "2", "5">>
      [] OTHER -> <<c>>

CharOf(h) ==
    CASE h = <<"2", "0">> -> " "
      [] h = <<"3", "F">> -> "?"
      [] h = <<"2", "5">> -> "%"
      [] h = <<"2", "F">> -> "/"
      [] OTHER -> "!"

\* url.escape(s, encodePath)
RECURSIVE Escape(_)
Escape(s) ==
    IF s = Empty THEN Empty
    ELSE (IF ShouldEscape(Head(s)) THEN HexOf(Head(s)) ELSE <<Head(s)>>)
         \o Escape(Tail(s))

\* url.unescape(s, encodePath): [ok, val]
RECURSIVE Unescape(_)
Unescape(s) ==
    IF s = Empty THEN [ok |-> TRUE, val |-> Empty]
    ELSE IF Head(s) = "%"
    THEN IF Len(s) < 3 \/ CharOf(SubSeq(s, 2, 3)) = "!"
         THEN [ok |-> FALSE, val |-> Empty]
         ELSE LET rest == Unescape(SubSeq(s, 4, Len(s)))
              IN [ok |-> rest.ok, val |-> <<CharOf(SubSeq(s, 2, 3))>> \o rest.val]
    ELSE LET rest == Unescape(Tail(s))
         IN [ok |-> rest.ok, val |-> <<Head(s)>> \o rest.val]

\* url.validEncoded(s, encodePath)
ValidEncoded(s) == \A i \in 1..Len(s) : s[i] = "%" \/ ~ShouldEscape(s[i])

\* (*URL).Path in place of (*URL).EscapedPath()
UnescapedPath(u) == u.Path

\* (*URL).EscapedPath()
EscapedPath(u) ==
    IF /\ u.RawPath # Empty
       /\ ValidEncoded(u.RawPath)
       /\ Unescape(u.RawPath).ok
       /\ Unescape(u.RawPath).val = u.Path
    THEN u.RawPath
    ELSE IF u.Path = <<"*">> THEN <<"*">> ELSE Escape(u.Path)

\* Request URLs as net/http parses them: RawPath is set only when the
\* default encoding of Path differs from the path received.
URLs ==
    { [Path |-> <<"/", "m">>, RawPath |-> Empty, RawQuery |-> Empty],
      [Path |-> <<"/", "a", " ", "b">>, RawPath |-> Empty, RawQuery |-> <<"q">>],
      [Path |-> <<"/", "a", "/", "b">>,
       RawPath |-> <<"/", "a", "%", "2", "F", "b">>, RawQuery |-> Empty],
      [Path |-> <<"/", "a", "?">>, RawPath |-> Empty, RawQuery |-> <<"q">>] }

\* --------------------------------------------------------- identifiers
Digits == <<"1", "2", "3", "4", "5", "6", "7", "8", "9">>
\* xid.ID.String()
IDString(id) == <<"x", "i", "d", Digits[id]>>

\* -------------------------------------------------- errors (package errs)
\* Values of Go's error interface: the kind of a classified error (or "nil"
\* for the nil error, "error" for an error of another type) and the message
\* of the error at the root of its chain of causes.
NilErr == [Kind |-> "nil", Err |-> "nil"]
\* errors.New(msg)
errorsNew(msg) == [Kind |-> "error", Err |-> msg]
\* io.EOF, io.ErrUnexpectedEOF and some other decode error
EOF == errorsNew("EOF")
ErrUnexpectedEOF == errorsNew("unexpected EOF")
SyntaxErr == errorsNew("invalid character")
UnmarshalTypeErr == errorsNew("json: cannot unmarshal")
DecodeErrs == {NilErr, EOF, ErrUnexpectedEOF, SyntaxErr, UnmarshalTypeErr}

Kinds ==
    {"Other", "Unauthenticated", "Unauthorized", "InvalidRequest", "NotFound",
     "Conflict", "Internal"}

\* A nil error value where a classified error may stand.
NilError == NilErr
\* errs.E with a Kind argument and an error argument: the error becomes the
\* cause of the classified error.
E(kind, err) == [Kind |-> kind, Err |-> err.Err]
\* errs.E with an error argument only: the Kind keeps its zero value.
EOther(err) == E("Other", err)

\* The status the HTTP mapper fixes for each kind.
StatusOf(kind) ==
    CASE kind = "Unauthenticated" -> 401
      [] kind = "Unauthorized" -> 403
      [] kind = "InvalidRequest" -> 400
      [] kind = "NotFound" -> 404
      [] kind = "Conflict" -> 409
      [] OTHER -> 500

\* ------------------------------------------------------ response writer
HeaderNames == {"Content-Type", "Request-Id"}
NoBody ==
    [kind |-> "none", keys |-> {}, path |-> Empty, request_id |-> Empty,
     data |-> "null", error |-> "none"]
NewRecorder == [status |-> 0, header |-> [h \in HeaderNames |-> <<>>], body |-> NoBody]

\* http.Header.Add and http.Header.Set
HeaderAdd(w, name, val) == [w EXCEPT !.header[name] = Append(@, val)]
HeaderSet(w, name, val) == [w EXCEPT !.header[name] = <<val>>]
\* ResponseWriter.WriteHeader: the first status written stands.
WriteHeader(w, code) == IF w.status = 0 THEN [w EXCEPT !.status = code] ELSE w
\* ResponseWriter.Write: writes status 200 first when none was written.
Write(w, body) == [WriteHeader(w, 200) EXCEPT !.body = body]

\* The JSON error body of the HTTP mapper; only a safe summary of the error.
ErrorBody(e) ==
    [NoBody EXCEPT !.kind = "error", !.keys = {"error"}, !.error = e.Kind]

\* errs.HTTPErrorResponse, the writer's side: status by kind, and a body
\* unless the kind is Unauthenticated or Unauthorized.
HTTPErrorResponse(w, e) ==
    IF e.Kind \in {"Unauthenticated", "Unauthorized"}
    THEN WriteHeader(w, StatusOf(e.Kind))
    ELSE Write(WriteHeader(w, StatusOf(e.Kind)), ErrorBody(e))

\* errs.HTTPErrorResponse, the logger's side: the lines it adds to the
\* output, given the fields of the logger it was handed (none when that
\* logger is disabled).
ErrorLogLines(rq, lgr, e) ==
    IF lgr.on
    THEN << [req |-> rq, level |-> "error", ctx |-> lgr.fields,
             ev |-> << <<"error", e.Err>>, <<"Kind", e.Kind>> >>] >>
    ELSE << >>

\* --------------------------------------------------- request context
\* context.Context of a request: the logger it points to (0: none), the
\* correlation identifier (0: none) and the access token.
NoToken == [set |-> FALSE, Token |-> Empty, TokenType |-> Empty]
Background == [logger |-> 0, id |-> 0, token |-> NoToken]

\* auth.SetAccessToken2Context
SetAccessToken2Context(ctx, token, typ) ==
    [ctx EXCEPT !.token = [set |-> TRUE, Token |-> token, TokenType |-> typ]]

\* hlog.IDFromRequest
IDFromRequest(ctx) == [id |-> ctx.id, ok |-> ctx.id # 0]

\* ------------------------------------------------ NewStandardResponse
Payloads == {"movie1", "movie2"}
NilResponse == [Path |-> Empty, RequestID |-> Empty, Data |-> "null"]

\* NewStandardResponse with the path taken unescaped.
NewStandardResponseRawPath(url, ctx, d) ==
    IF ~IDFromRequest(ctx).ok
    THEN [nil |-> TRUE, sr |-> NilResponse,
          err |-> EOther(errorsNew("request ID not properly set to request context"))]
    ELSE [nil |-> FALSE,
          sr |-> [Path |-> UnescapedPath(url),
                  RequestID |-> IDString(IDFromRequest(ctx).id), Data |-> d],
          err |-> NilError]

\* NewStandardResponse that classifies the missing identifier as a bad request.
NewStandardResponseBadKind(url, ctx, d) ==
    IF ~IDFromRequest(ctx).ok
    THEN [nil |-> TRUE, sr |-> NilResponse,
          err |-> E("InvalidRequest", errorsNew("request ID not properly set to request context"))]
    ELSE [nil |-> FALSE,
          sr |-> [Path |-> EscapedPath(url),
                  RequestID |-> IDString(IDFromRequest(ctx).id), Data |-> d],
          err |-> NilError]

\* NewStandardResponse(r, d): (nil, error) without a correlation identifier
\* in the context, else the envelope and a nil error.
NewStandardResponse(url, ctx, d) ==
    IF ~IDFromRequest(ctx).ok
    THEN [nil |-> TRUE, sr |-> NilResponse,
          err |-> EOther(errorsNew("request ID not properly set to request context"))]
    ELSE [nil |-> FALSE,
          sr |-> [Path |-> EscapedPath(url),
                  RequestID |-> IDString(IDFromRequest(ctx).id), Data |-> d],
          err |-> NilError]

\* json.NewEncoder(w).Encode of a StandardResponse: path and request_id are
\* omitted when empty, data never.
EncodeJSON(sr) ==
    [NoBody EXCEPT
       !.kind = "envelope",
       !.keys = {"data"} \cup (IF sr.Path # Empty THEN {"path"} ELSE {})
                \cup (IF sr.RequestID # Empty THEN {"request_id"} ELSE {}),
       !.path = sr.Path, !.request_id = sr.RequestID, !.data = sr.Data]

\* ------------------------------------------------------------ DecoderErr
\* DecoderErr without the case of the truncated body.
DecoderErrNoUnexpectedEOF(err) ==
    CASE err = EOF -> E("InvalidRequest", errorsNew("Request Body cannot be empty"))
      [] err # NilErr /\ err # EOF -> EOther(err)
      [] OTHER -> NilError

\* DecoderErr whose last case wraps whatever it is given, nil included.
DecoderErrWrapsNil(err) ==
    CASE err = EOF -> E("InvalidRequest", errorsNew("Request Body cannot be empty"))
      [] err = ErrUnexpectedEOF -> E("InvalidRequest", errorsNew("Malformed JSON"))
      [] OTHER -> EOther(err)

\* DecoderErr that classifies every other decode error as a bad request.
DecoderErrAllInvalid(err) ==
    CASE err = EOF -> E("InvalidRequest", errorsNew("Request Body cannot be empty"))
      [] err = ErrUnexpectedEOF -> E("InvalidRequest", errorsNew("Malformed JSON"))
      [] err # NilErr /\ err # EOF /\ err # ErrUnexpectedEOF -> E("InvalidRequest", err)
      [] OTHER -> NilError

\* DecoderErr(err): nil for nil, else a classified error.
DecoderErr(err) ==
    CASE err = EOF -> E("InvalidRequest", errorsNew("Request Body cannot be empty"))
      [] err = ErrUnexpectedEOF -> E("InvalidRequest", errorsNew("Malformed JSON"))
      [] err # NilErr /\ err # EOF /\ err # ErrUnexpectedEOF -> EOther(err)
      [] OTHER -> NilError

\* ------------------------------------------------- middleware and chains
\* A middleware constructor: the handler it wraps with, and the arguments
\* the hlog constructors take.
Stage(h) == [h |-> h, fieldKey |-> "", headerName |-> ""]
NewHandler == Stage("NewHandler")
AccessHandler == Stage("AccessHandler")
RemoteAddrHandler(fieldKey) == [Stage("RemoteAddrHandler") EXCEPT !.fieldKey = fieldKey]
UserAgentHandler(fieldKey) == [Stage("UserAgentHandler") EXCEPT !.fieldKey = fieldKey]
RefererHandler(fieldKey) == [Stage("RefererHandler") EXCEPT !.fieldKey = fieldKey]
RequestIDHandler(fieldKey, headerName) ==
    [Stage("RequestIDHandler") EXCEPT !.fieldKey = fieldKey, !.headerName = headerName]
JSONContentTypeHandler == Stage("JSONContentTypeHandler")
AccessTokenHandler == Stage("AccessTokenHandler")
requestIDMiddleware == Stage("requestIDMiddleware")
createMovieHandler == Stage("createMovieHandler")

\* The heap of alice.Chain values: chain i holds the constructors heap[i].
\* alice.New()
AliceNew(heap) == Append(heap, <<>>)

\* Chain.Append that grows the receiver's own constructor list as well.
AliceAppendInPlace(heap, i, ms) ==
    Append([heap EXCEPT ![i] = @ \o ms], heap[i] \o ms)

\* Chain.Append(ms...): a new chain; the receiver is left as it was.
AliceAppend(heap, i, ms) == Append(heap, heap[i] \o ms)

Reverse(s) == [k \in 1..Len(s) |-> s[Len(s) + 1 - k]]

\* Chain.Then that wraps in the order opposite to the declared one.
AliceThenReversed(heap, i, h) == Reverse(heap[i]) \o <<h>>

\* Chain.Then(h): the handler that runs the chain's middleware in the
\* declared order and then h, given as the list of its stages.
AliceThen(heap, i, h) == heap[i] \o <<h>>

\* LoggerHandlerChain without the handler that generates the identifier.
LoggerHandlerChainNoRequestID(heap, i) ==
    LET h1 == AliceAppend(heap, i, <<NewHandler>>)
        h2 == AliceAppend(h1, Len(h1), <<AccessHandler>>)
        h3 == AliceAppend(h2, Len(h2), <<RemoteAddrHandler("remote_ip")>>)
        h4 == AliceAppend(h3, Len(h3), <<UserAgentHandler("user_agent")>>)
        h5 == AliceAppend(h4, Len(h4), <<RefererHandler("referer")>>)
    IN  Append(SubSeq(h5, 1, Len(heap)), h5[Len(h5)])

\* LoggerHandlerChain without a response header for the identifier.
LoggerHandlerChainNoHeader(heap, i) ==
    LET h1 == AliceAppend(heap, i, <<NewHandler>>)
        h2 == AliceAppend(h1, Len(h1), <<AccessHandler>>)
        h3 == AliceAppend(h2, Len(h2), <<RemoteAddrHandler("remote_ip")>>)
        h4 == AliceAppend(h3, Len(h3), <<UserAgentHandler("user_agent")>>)
        h5 == AliceAppend(h4, Len(h4), <<RefererHandler("referer")>>)
        h6 == AliceAppend(h5, Len(h5), <<RequestIDHandler("request_id", "")>>)
    IN  Append(SubSeq(h6, 1, Len(heap)), h6[Len(h6)])

\* LoggerHandlerChain(logger, c): c extended by the six logging handlers.
\* Every Append allocates a chain; only the last one is returned, and the
\* ones in between are dropped.
LoggerHandlerChain(heap, i) ==
    LET h1 == AliceAppend(heap, i, <<NewHandler>>)
        h2 == AliceAppend(h1, Len(h1), <<AccessHandler>>)
        h3 == AliceAppend(h2, Len(h2), <<RemoteAddrHandler("remote_ip")>>)
        h4 == AliceAppend(h3, Len(h3), <<UserAgentHandler("user_agent")>>)
        h5 == AliceAppend(h4, Len(h4), <<RefererHandler("referer")>>)
        h6 == AliceAppend(h5, Len(h5), <<RequestIDHandler("request_id", "Request-Id")>>)
    IN  Append(SubSeq(h6, 1, Len(heap)), h6[Len(h6)])

\* What LoggerHandlerChain is declared to add to a chain.
LoggerStages ==
    << NewHandler, AccessHandler, RemoteAddrHandler("remote_ip"),
       UserAgentHandler("user_agent"), RefererHandler("referer"),
       RequestIDHandler("request_id", "Request-Id") >>

\* The route set-up as a list of steps, each allocating one chain.
BuildOps(n) ==
    {[op |-> "New", c |-> 0, ms |-> <<>>]}
    \cup {[op |-> "Logger", c |-> i, ms |-> LoggerStages] : i \in 1..n}
    \cup {[op |-> "Append", c |-> i, ms |-> <<m>>] :
            i \in 1..n,
            m \in {AccessTokenHandler, JSONContentTypeHandler, requestIDMiddleware}}

ApplyOp(heap, o) ==
    CASE o.op = "New" -> AliceNew(heap)
      [] o.op = "Logger" -> LoggerHandlerChain(heap, o.c)
      [] OTHER -> AliceAppend(heap, o.c, o.ms)

RECURSIVE RunOps(_)
RunOps(ops) ==
    IF ops = <<>> THEN <<>>
    ELSE ApplyOp(RunOps(SubSeq(ops, 1, Len(ops) - 1)), ops[Len(ops)])

\* The middleware a chain was declared with: those of the chain it was
\* derived from, then its own.
RECURSIVE Declared(_, _)
Declared(lin, i) ==
    IF i = 0 THEN <<>> ELSE Declared(lin, lin[i].c) \o lin[i].ms

\* The chains of the repository's tests and routes: the logging chain with
\* and without AccessTokenHandler, in both orders, and a chain without the
\* logging handlers.
StandardOps ==
    << [op |-> "New", c |-> 0, ms |-> <<>>],
       [op |-> "Logger", c |-> 1, ms |-> LoggerStages],
       [op |-> "Append", c |-> 2, ms |-> <<AccessTokenHandler>>],
       [op |-> "Append", c |-> 3, ms |-> <<JSONContentTypeHandler>>],
       [op |-> "Append", c |-> 4, ms |-> <<requestIDMiddleware>>],
       [op |-> "Append", c |-> 2, ms |-> <<JSONContentTypeHandler>>],
       [op |-> "Append", c |-> 6, ms |-> <<AccessTokenHandler>>],
       [op |-> "Append", c |-> 1, ms |-> <<AccessTokenHandler>>],
       [op |-> "Append", c |-> 8, ms |-> <<JSONContentTypeHandler>>] >>
StandardRouteChains == {5, 6, 7, 9}

\* ---------------------------------------------------------------- state
VARIABLES
    chains,    \* the heap of alice.Chain values
    lineage,   \* per chain: the chain it was derived from and what was appended
    routes,    \* the handlers registered with Then: [chain, stages]
    tmpl,      \* the logger passed to LoggerHandlerChain: its context fields
    out,       \* the lines written to the log output
    issued,    \* the identifiers xid.New() has returned
    st,        \* per request: "absent", "pending", "running" or "done"
    req,       \* per request: what the client sent
    handler,   \* per request: the stages of the handler serving it
    stack,     \* per request: the ServeHTTP calls in progress, innermost last
    loggers,   \* per request: the loggers NewHandler derived
    resp,      \* per request: the response writer
    trace,     \* per request: the stages entered and left, in order
    obs        \* per request: what the terminal handler and the test observed

buildVars == <<chains, lineage, routes>>
vars ==
    <<chains, lineage, routes, tmpl, out, issued, st, req, handler, stack,
      loggers, resp, trace, obs>>

\* ------------------------------------------------------- request inputs
DefaultAuth == [ok |-> TRUE, v |-> <<BearerTokenType \o SP \o Abc>>]
NoAuth == [ok |-> FALSE, v |-> <<>>]
DefaultURL == [Path |-> <<"/", "m">>, RawPath |-> Empty, RawQuery |-> Empty]
DefaultMeta == [remote |-> "10.0.0.1:1234", ua |-> "curl", referer |-> ""]
Metas ==
    { DefaultMeta,
      [remote |-> "", ua |-> "", referer |-> "http://ref"],
      [remote |-> "10.0.0.2:80", ua |-> "go", referer |-> "http://ref"] }

\* What the terminal handler's own work comes to for a request: a decode
\* error of its body, an error of a collaborator, or a payload.
Outcomes ==
    { [t |-> "decode", err |-> e, kind |-> "Other", d |-> "null"] :
        e \in DecodeErrs \ {NilErr} }
    \cup { [t |-> "collab", err |-> errorsNew("collaborator"), kind |-> k, d |-> "null"] : k \in Kinds }
    \cup { [t |-> "ok", err |-> NilErr, kind |-> "Other", d |-> d] : d \in Payloads }
DefaultOutcome == [t |-> "ok", err |-> NilErr, kind |-> "Other", d |-> "movie1"]

Request(a, u, m, o) ==
    [auth |-> a, url |-> u, meta |-> m, method |-> "POST", outcome |-> o]

\* What one request may be: every Authorization header on a request that
\* is otherwise the default one, and every URL, client and outcome on a
\* request with and without a bearer token.
Requests ==
    { Request(a, DefaultURL, DefaultMeta, DefaultOutcome) : a \in AuthHeaders }
    \cup { Request(a, u, m, o) :
             a \in {DefaultAuth, NoAuth}, u \in URLs, m \in Metas, o \in Outcomes }
\* The requests of the runs that build their own chains.
FewRequests ==
    { Request(a, DefaultURL, DefaultMeta, DefaultOutcome) : a \in {DefaultAuth, NoAuth} }

\* The requests of the runs that serve several requests at once: two with
\* different bearer tokens and one without Authorization header, each from
\* a different client.
ConcRequests ==
    { Request(DefaultAuth, DefaultURL, DefaultMeta, DefaultOutcome),
      Request([ok |-> TRUE, v |-> <<BearerTokenType \o SP \o Abc \o Abc>>], DefaultURL,
              [remote |-> "10.0.0.2:80", ua |-> "go", referer |-> "http://ref"],
              DefaultOutcome),
      Request(NoAuth, DefaultURL,
              [remote |-> "10.0.0.3:80", ua |-> "", referer |-> "http://other"],
              DefaultOutcome) }

NoObs ==
    [termCalls |-> 0, tokenSeen |-> NoToken, requestID |-> Empty, fatal |-> FALSE,
     gate |-> "none", called |-> FALSE, ctx |-> Background, d |-> "null",
     res |-> [nil |-> TRUE, sr |-> NilResponse, err |-> NilError],
     decoded |-> NilErr, again |-> NilErr, err |-> NilErr]

NoRoute == [chain |-> 0, stages |-> <<>>]

InitRequests(live, inputs) ==
    /\ st = [r \in Reqs |-> IF r \in live THEN "pending" ELSE "absent"]
    /\ \E f \in [live -> inputs] :
         req = [r \in Reqs |-> IF r \in live THEN f[r]
                               ELSE Request(NoAuth, DefaultURL, DefaultMeta, DefaultOutcome)]
    /\ handler = [r \in Reqs |-> NoRoute]
    /\ stack = [r \in Reqs |-> <<>>]
    /\ loggers = [r \in Reqs |-> <<>>]
    /\ resp = [r \in Reqs |-> NewRecorder]
    /\ trace = [r \in Reqs |-> <<>>]
    /\ obs = [r \in Reqs |-> NoObs]
    /\ out = <<>>
    /\ issued = {}
    /\ tmpl = << <<"service", "api">> >>

\* One request arrives at a server whose routes are the standard chains.
Init ==
    /\ chains = RunOps(StandardOps)
    /\ lineage = StandardOps
    /\ routes = { [chain |-> i, stages |-> AliceThen(RunOps(StandardOps), i, createMovieHandler)] :
                    i \in StandardRouteChains }
    /\ InitRequests({1}, Requests)

\* The chain of the tests among the standard ones.
TestChain == 5

\* Every request arrives at a server whose one route is the chain of the
\* tests. Requests differ only in what they carry, so the first one is
\* taken to be the request with the default bearer token.
InitConc ==
    /\ chains = RunOps(StandardOps)
    /\ lineage = StandardOps
    /\ routes = { [chain |-> TestChain,
                   stages |-> AliceThen(RunOps(StandardOps), TestChain, createMovieHandler)] }
    /\ InitRequests(Reqs, ConcRequests)
    /\ req[1] = Request(DefaultAuth, DefaultURL, DefaultMeta, DefaultOutcome)

\* One request arrives at a server that builds its chains first.
InitBuild ==
    /\ chains = AliceNew(<<>>)
    /\ lineage = << [op |-> "New", c |-> 0, ms |-> <<>>] >>
    /\ routes = {}
    /\ InitRequests({1}, FewRequests)

\* ------------------------------------------------------------ route set-up
NoneStarted == \A r \in Reqs : st[r] \in {"absent", "pending"}

\* c2 := alice.New(), LoggerHandlerChain(logger, c) or c.Append(m)
Build(o) ==
    /\ NoneStarted
    /\ Len(chains) < MaxChains
    /\ chains' = ApplyOp(chains, o)
    /\ lineage' = Append(lineage, o)
    /\ UNCHANGED <<routes, tmpl, out, issued, st, req, handler, stack, loggers,
                   resp, trace, obs>>

\* h := c.Then(createMovieHandler), registered as a route
Then(i) ==
    /\ NoneStarted
    /\ i \in 1..Len(chains)
    /\ \A rt \in routes : rt.chain # i
    /\ routes' = routes \cup {[chain |-> i, stages |-> AliceThen(chains, i, createMovieHandler)]}
    /\ UNCHANGED <<chains, lineage, tmpl, out, issued, st, req, handler, stack,
                   loggers, resp, trace, obs>>

\* ------------------------------------------------------ serving a request
Top(r) == stack[r][Len(stack[r])]
Cur(r) == handler[r].stages[Top(r).idx]
Entering(r, h) ==
    /\ st[r] = "running" /\ stack[r] # <<>>
    /\ Top(r).pc = "enter" /\ Cur(r).h = h
Returning(r) == st[r] = "running" /\ stack[r] # <<>> /\ Top(r).pc = "called"

\* next.ServeHTTP(w, r) with r carrying context ctx2
CallNext(r, ctx2) ==
    /\ stack' = [stack EXCEPT ![r] =
                   SubSeq(@, 1, Len(@) - 1)
                   \o << [Top(r) EXCEPT !.pc = "called"],
                         [idx |-> Top(r).idx + 1, ctx |-> ctx2, pc |-> "enter"] >>]
    /\ trace' = [trace EXCEPT ![r] = Append(@, <<"in", Top(r).idx + 1>>)]
    /\ st' = st

\* the return of the innermost ServeHTTP call
ReturnNow(r) ==
    /\ stack' = [stack EXCEPT ![r] = SubSeq(@, 1, Len(@) - 1)]
    /\ trace' = [trace EXCEPT ![r] = Append(@, <<"out", Top(r).idx>>)]
    /\ st' = [st EXCEPT ![r] = IF Len(stack[r]) = 1 THEN "done" ELSE @]

\* hlog.FromRequest(r), dereferenced: the logger the context points to, or
\* the disabled logger.
FromRequest(r, ctx) ==
    IF ctx.logger = 0 THEN [on |-> FALSE, fields |-> <<>>]
    ELSE [on |-> TRUE, fields |-> loggers[r][ctx.logger]]

\* zerolog.Ctx(ctx).UpdateContext adding one field: through the pointer, so
\* every holder of the logger sees it; nothing on the disabled logger.
UpdateContext(lgs, k, fld) == IF k = 0 THEN lgs ELSE [lgs EXCEPT ![k] = Append(@, fld)]

\* The server calls the route's handler: h.ServeHTTP(rr, req)
Start(r) ==
    /\ st[r] = "pending"
    /\ \E rt \in routes :
         /\ handler' = [handler EXCEPT ![r] = rt]
         /\ stack' = [stack EXCEPT ![r] = << [idx |-> 1, ctx |-> Background, pc |-> "enter"] >>]
    /\ trace' = [trace EXCEPT ![r] = << <<"in", 1>> >>]
    /\ st' = [st EXCEPT ![r] = "running"]
    /\ UNCHANGED <<buildVars, tmpl, out, issued, req, loggers, resp, obs>>

\* hlog.NewHandler that shares one logger between the requests instead of
\* copying it: a request starts from the fields other requests have added.
NewHandlerServeShared(r) ==
    /\ Entering(r, "NewHandler")
    /\ \E l \in {tmpl} \cup {loggers[q][1] : q \in {p \in Reqs : loggers[p] # <<>>}} :
         loggers' = [loggers EXCEPT ![r] = Append(@, l)]
    /\ CallNext(r, [Top(r).ctx EXCEPT !.logger = Len(loggers[r]) + 1])
    /\ UNCHANGED <<buildVars, tmpl, out, issued, req, handler, resp, obs>>

\* hlog.NewHandler(logger): a copy of the logger goes into the context
NewHandlerServe(r) ==
    /\ Entering(r, "NewHandler")
    /\ loggers' = [loggers EXCEPT ![r] = Append(@, tmpl)]
    /\ CallNext(r, [Top(r).ctx EXCEPT !.logger = Len(loggers[r]) + 1])
    /\ UNCHANGED <<buildVars, tmpl, out, issued, req, handler, resp, obs>>

\* hlog.AccessHandler(f): calls next, and f once next has returned
AccessHandlerServe(r) ==
    /\ Entering(r, "AccessHandler")
    /\ CallNext(r, Top(r).ctx)
    /\ UNCHANGED <<buildVars, tmpl, out, issued, req, handler, loggers, resp, obs>>

BodySize(body) == Cardinality(body.keys)

\* The callback that logs through the logger handed to LoggerHandlerChain.
AccessLogLinesTemplate(r, ctx, status, size) ==
    << [req |-> r, level |-> "info", ctx |-> tmpl,
        ev |-> << <<"method", req[r].method>>, <<"url", req[r].url>>,
                  <<"status", status>>, <<"size", size>> >>] >>

\* The callback that logs status 200 whatever status was written.
AccessLogLinesStatusOK(r, ctx, status, size) ==
    IF FromRequest(r, ctx).on
    THEN << [req |-> r, level |-> "info", ctx |-> FromRequest(r, ctx).fields,
             ev |-> << <<"method", req[r].method>>, <<"url", req[r].url>>,
                       <<"status", 200>>, <<"size", size>> >>] >>
    ELSE << >>

\* The callback LoggerHandlerChain gives to AccessHandler: one line through
\* hlog.FromRequest(r), nothing when that logger is disabled.
AccessLogLines(r, ctx, status, size) ==
    IF FromRequest(r, ctx).on
    THEN << [req |-> r, level |-> "info", ctx |-> FromRequest(r, ctx).fields,
             ev |-> << <<"method", req[r].method>>, <<"url", req[r].url>>,
                       <<"status", status>>, <<"size", size>> >>] >>
    ELSE << >>

AccessHandlerDone(r) ==
    /\ Returning(r) /\ Cur(r).h = "AccessHandler"
    /\ out' = out \o AccessLogLines(r, Top(r).ctx, resp[r].status, BodySize(resp[r].body))
    /\ ReturnNow(r)
    /\ UNCHANGED <<buildVars, tmpl, issued, req, handler, loggers, resp, obs>>

\* hlog.RemoteAddrHandler, UserAgentHandler, RefererHandler: add the field
\* to the request's logger when the request has a value for it
FieldHandlerServe(r, h, val) ==
    /\ Entering(r, h)
    /\ loggers' = [loggers EXCEPT ![r] =
                     IF val # "" THEN UpdateContext(@, Top(r).ctx.logger, <<Cur(r).fieldKey, val>>)
                     ELSE @]
    /\ CallNext(r, Top(r).ctx)
    /\ UNCHANGED <<buildVars, tmpl, out, issued, req, handler, resp, obs>>

RemoteAddrHandlerServe(r) == FieldHandlerServe(r, "RemoteAddrHandler", req[r].meta.remote)
UserAgentHandlerServe(r) == FieldHandlerServe(r, "UserAgentHandler", req[r].meta.ua)
RefererHandlerServe(r) == FieldHandlerServe(r, "RefererHandler", req[r].meta.referer)

\* hlog.RequestIDHandler(fieldKey, headerName): the context's identifier or
\* a new one, stored in the context, the logger and the response header.
\* xid.New() takes the next value of the generator's counter, so the new
\* identifier is the first one not issued yet.
RequestIDHandlerServe(r) ==
    /\ Entering(r, "RequestIDHandler")
    /\ \E id \in IDs :
         /\ IF IDFromRequest(Top(r).ctx).ok THEN id = Top(r).ctx.id
            ELSE id = Cardinality(issued) + 1
         /\ issued' = issued \cup {id}
         /\ loggers' = [loggers EXCEPT ![r] =
                          IF Cur(r).fieldKey # ""
                          THEN UpdateContext(@, Top(r).ctx.logger, <<Cur(r).fieldKey, IDString(id)>>)
                          ELSE @]
         /\ resp' = [resp EXCEPT ![r] =
                       IF Cur(r).headerName # "" THEN HeaderSet(@, Cur(r).headerName, IDString(id))
                       ELSE @]
         /\ CallNext(r, [Top(r).ctx EXCEPT !.id = id])
    /\ UNCHANGED <<buildVars, tmpl, out, req, handler, obs>>

\* JSONContentTypeHandler that also writes the status line of the response.
JSONContentTypeHandlerServeWritesStatus(r) ==
    /\ Entering(r, "JSONContentTypeHandler")
    /\ resp' = [resp EXCEPT ![r] =
                  WriteHeader(HeaderAdd(@, "Content-Type", "application/json"), 200)]
    /\ CallNext(r, Top(r).ctx)
    /\ UNCHANGED <<buildVars, tmpl, out, issued, req, handler, loggers, obs>>

\* JSONContentTypeHandler
JSONContentTypeHandlerServe(r) ==
    /\ Entering(r, "JSONContentTypeHandler")
    /\ resp' = [resp EXCEPT ![r] = HeaderAdd(@, "Content-Type", "application/json")]
    /\ CallNext(r, Top(r).ctx)
    /\ UNCHANGED <<buildVars, tmpl, out, issued, req, handler, loggers, obs>>

\* The token taken from the last Authorization value instead of the first.
HeaderTokenLast(hv) ==
    IF hv.ok /\ Len(hv.v) >= 1
    THEN TrimPrefix(hv.v[Len(hv.v)], BearerTokenType \o SP)
    ELSE Empty

\* AccessTokenHandler, lines 85-89: the token is the first Authorization
\* value without the prefix "Bearer ", or empty when there is no value.
HeaderToken(hv) ==
    IF hv.ok /\ Len(hv.v) >= 1
    THEN TrimPrefix(hv.v[1], BearerTokenType \o SP)
    ELSE Empty

\* The gate removed: no answer, next is always called.
AccessTokenGateOpen(token) == [respond |-> FALSE, next |-> TRUE]

\* The gate without its return: the error is written and next is called.
AccessTokenGateNoReturn(token) == [respond |-> token = Empty, next |-> TRUE]

\* AccessTokenHandler, lines 92-110: an empty token is answered with the
\* Unauthenticated error and the handler returns; otherwise next is called.
AccessTokenGate(token) == [respond |-> token = Empty, next |-> token # Empty]

\* The error of the gate classified as a bad request.
UnauthenticatedAsInvalidRequest ==
    E("InvalidRequest", errorsNew("Unauthenticated - empty Bearer token"))

Unauthenticated ==
    E("Unauthenticated", errorsNew("Unauthenticated - empty Bearer token"))

\* AccessTokenHandler that writes the enriched context into the request it
\* received (*r = *r.WithContext(ctx)) before calling next.
AccessTokenHandlerServeInPlace(r) ==
    LET logger == FromRequest(r, Top(r).ctx)
        token == HeaderToken(req[r].auth)
        gate == AccessTokenGate(token)
        ctx2 == SetAccessToken2Context(Top(r).ctx, token, BearerTokenType)
    IN  /\ Entering(r, "AccessTokenHandler")
        /\ resp' = [resp EXCEPT ![r] =
                      IF gate.respond THEN HTTPErrorResponse(@, Unauthenticated) ELSE @]
        /\ out' = IF gate.respond THEN out \o ErrorLogLines(r, logger, Unauthenticated) ELSE out
        /\ obs' = [obs EXCEPT ![r].gate = IF gate.respond THEN "rejected" ELSE "passed"]
        /\ IF gate.next
           THEN /\ stack' = [stack EXCEPT ![r] =
                               SubSeq(@, 1, Len(@) - 1)
                               \o << [Top(r) EXCEPT !.pc = "called", !.ctx = ctx2],
                                     [idx |-> Top(r).idx + 1, ctx |-> ctx2, pc |-> "enter"] >>]
                /\ trace' = [trace EXCEPT ![r] = Append(@, <<"in", Top(r).idx + 1>>)]
                /\ st' = st
           ELSE ReturnNow(r)
        /\ UNCHANGED <<buildVars, tmpl, issued, req, handler, loggers>>

\* AccessTokenHandler whose token variable is declared outside the handler
\* function, so that the requests in flight share it.
AccessTokenHandlerServeSharedToken(r) ==
    LET logger == FromRequest(r, Top(r).ctx)
    IN  /\ Entering(r, "AccessTokenHandler")
        /\ \E q \in {p \in Reqs : st[p] = "running"} :
             LET token == HeaderToken(req[q].auth)
                 gate == AccessTokenGate(token)
             IN  /\ resp' = [resp EXCEPT ![r] =
                               IF gate.respond THEN HTTPErrorResponse(@, Unauthenticated) ELSE @]
                 /\ out' = IF gate.respond
                           THEN out \o ErrorLogLines(r, logger, Unauthenticated) ELSE out
                 /\ obs' = [obs EXCEPT ![r].gate = IF gate.respond THEN "rejected" ELSE "passed"]
                 /\ IF gate.next
                    THEN CallNext(r, SetAccessToken2Context(Top(r).ctx, token, BearerTokenType))
                    ELSE ReturnNow(r)
        /\ UNCHANGED <<buildVars, tmpl, issued, req, handler, loggers>>

\* AccessTokenHandler that builds the context it passes on from an empty
\* context instead of the request's.
AccessTokenHandlerServeNewContext(r) ==
    LET logger == FromRequest(r, Top(r).ctx)
        token == HeaderToken(req[r].auth)
        gate == AccessTokenGate(token)
    IN  /\ Entering(r, "AccessTokenHandler")
        /\ resp' = [resp EXCEPT ![r] =
                      IF gate.respond THEN HTTPErrorResponse(@, Unauthenticated) ELSE @]
        /\ out' = IF gate.respond THEN out \o ErrorLogLines(r, logger, Unauthenticated) ELSE out
        /\ obs' = [obs EXCEPT ![r].gate = IF gate.respond THEN "rejected" ELSE "passed"]
        /\ IF gate.next
           THEN CallNext(r, SetAccessToken2Context(Background, token, BearerTokenType))
           ELSE ReturnNow(r)
        /\ UNCHANGED <<buildVars, tmpl, issued, req, handler, loggers>>

\* AccessTokenHandler
AccessTokenHandlerServe(r) ==
    LET logger == FromRequest(r, Top(r).ctx)
        token == HeaderToken(req[r].auth)
        gate == AccessTokenGate(token)
    IN  /\ Entering(r, "AccessTokenHandler")
        /\ resp' = [resp EXCEPT ![r] =
                      IF gate.respond THEN HTTPErrorResponse(@, Unauthenticated) ELSE @]
        /\ out' = IF gate.respond THEN out \o ErrorLogLines(r, logger, Unauthenticated) ELSE out
        /\ obs' = [obs EXCEPT ![r].gate = IF gate.respond THEN "rejected" ELSE "passed"]
        /\ IF gate.next
           THEN CallNext(r, SetAccessToken2Context(Top(r).ctx, token, BearerTokenType))
           ELSE ReturnNow(r)
        /\ UNCHANGED <<buildVars, tmpl, issued, req, handler, loggers>>

\* The middleware of the tests that reads the identifier from the context;
\* t.Fatal ends the run when there is none.
requestIDMiddlewareServe(r) ==
    /\ Entering(r, "requestIDMiddleware")
    /\ IF IDFromRequest(Top(r).ctx).ok
       THEN /\ obs' = [obs EXCEPT ![r].requestID = IDString(IDFromRequest(Top(r).ctx).id)]
            /\ CallNext(r, Top(r).ctx)
       ELSE /\ obs' = [obs EXCEPT ![r].fatal = TRUE]
            /\ stack' = [stack EXCEPT ![r] = <<>>]
            /\ st' = [st EXCEPT ![r] = "aborted"]
            /\ trace' = trace
    /\ UNCHANGED <<buildVars, tmpl, out, issued, req, handler, loggers, resp>>

\* The terminal resource handler: it passes the result of decoding the body
\* through DecoderErr, answers an error through errs.HTTPErrorResponse, and
\* a payload through NewStandardResponse and the JSON encoder.
TerminalServe(r) ==
    /\ Entering(r, "createMovieHandler")
    /\ LET o == req[r].outcome
             ctx == Top(r).ctx
             logger == FromRequest(r, ctx)
             res == NewStandardResponse(req[r].url, ctx, o.d)
             decoded == DecoderErr(IF o.t = "decode" THEN o.err ELSE NilErr)
             e == CASE decoded # NilErr -> decoded
                    [] o.t = "collab" -> E(o.kind, o.err)
                    [] OTHER -> res.err
             failed == e # NilErr
      IN  /\ resp' = [resp EXCEPT ![r] =
                        IF failed THEN HTTPErrorResponse(@, e)
                        ELSE Write(@, EncodeJSON(res.sr))]
          /\ out' = IF failed THEN out \o ErrorLogLines(r, logger, e) ELSE out
          /\ obs' = [obs EXCEPT
                       ![r].termCalls = @ + 1,
                       ![r].tokenSeen = ctx.token,
                       ![r].called = (o.t = "ok"),
                       ![r].ctx = ctx,
                       ![r].d = o.d,
                       ![r].res = IF o.t = "ok" THEN res ELSE @,
                       ![r].decoded = decoded,
                       ![r].again = DecoderErr(decoded),
                       ![r].err = e]
    /\ ReturnNow(r)
    /\ UNCHANGED <<buildVars, tmpl, issued, req, handler, loggers>>

\* The return of a middleware that does nothing after next has returned.
Return(r) ==
    /\ Returning(r) /\ Cur(r).h # "AccessHandler"
    /\ ReturnNow(r)
    /\ UNCHANGED <<buildVars, tmpl, out, issued, req, handler, loggers, resp, obs>>

Serve(r) ==
    \/ Start(r)
    \/ NewHandlerServe(r)
    \/ AccessHandlerServe(r)
    \/ AccessHandlerDone(r)
    \/ RemoteAddrHandlerServe(r)
    \/ UserAgentHandlerServe(r)
    \/ RefererHandlerServe(r)
    \/ RequestIDHandlerServe(r)
    \/ JSONContentTypeHandlerServe(r)
    \/ AccessTokenHandlerServe(r)
    \/ requestIDMiddlewareServe(r)
    \/ TerminalServe(r)
    \/ Return(r)

Next == \E r \in Reqs : Serve(r)

NextBuild ==
    \/ \E o \in BuildOps(Len(chains)) : Build(o)
    \/ \E i \in 1..Len(chains) : Then(i)
    \/ \E r \in Reqs : Serve(r)

\* Serving one request on the standard routes.
Spec == Init /\ [][Next]_vars
\* Setting up routes, then serving one request on one of them.
SpecBuild == InitBuild /\ [][NextBuild]_vars
\* Serving several requests at once on one route, their steps interleaved.
SpecConc == InitConc /\ [][Next]_vars

\* ---------------------------------------------------------------- claims
HasStage(r, h) == \E k \in 1..Len(handler[r].stages) : handler[r].stages[k].h = h
\* The frames of r that run behind a stage h: some earlier stage of the
\* handler is h.
Behind(r, k, h) == \E j \in 1..(stack[r][k].idx - 1) : handler[r].stages[j].h = h
BearerPrefix == BearerTokenType \o SP

\* No Authorization header, or a first value that is empty once the prefix
\* "Bearer " is removed.
NoTokenSent(hv) ==
    \/ ~hv.ok
    \/ Len(hv.v) = 0
    \/ hv.v[1] = Empty
    \/ hv.v[1] = BearerPrefix

\* C1: a request that reaches AccessTokenHandler with no Authorization
\* header, or with a value that is empty after removing "Bearer ", is
\* answered with status 401 and an empty body, and the terminal handler is
\* never invoked for it.
C1_NoTokenIs401 ==
    \A r \in Reqs :
        (HasStage(r, "AccessTokenHandler") /\ NoTokenSent(req[r].auth)) =>
            /\ obs[r].termCalls = 0
            /\ obs[r].gate # "passed"
            /\ obs[r].gate = "rejected" =>
                 /\ resp[r].status = 401
                 /\ resp[r].body = NoBody
            /\ st[r] = "done" => obs[r].gate = "rejected"

\* C1 witness: a request whose Authorization value is exactly "Bearer " has
\* been rejected and has completed.
C1_Witness ==
    \E r \in Reqs :
        /\ st[r] = "done" /\ obs[r].gate = "rejected"
        /\ req[r].auth.ok /\ req[r].auth.v = <<BearerPrefix>>
        /\ resp[r].status = 401

\* C2: a request whose Authorization value does not start with "Bearer "
\* (such as "Basic abc", "bearer abc" or "Bearer") is answered by
\* AccessTokenHandler with 401 and an empty body, and the terminal handler
\* does not run.
C2_MalformedIs401 ==
    \A r \in Reqs :
        (/\ HasStage(r, "AccessTokenHandler")
         /\ req[r].auth.ok /\ Len(req[r].auth.v) >= 1
         /\ ~HasPrefix(req[r].auth.v[1], BearerPrefix)) =>
            /\ obs[r].termCalls = 0
            /\ obs[r].gate # "passed"
            /\ obs[r].gate = "rejected" =>
                 (resp[r].status = 401 /\ resp[r].body = NoBody)

\* A well-formed Authorization header: "Bearer " and a non-empty token.
WellFormed(hv) ==
    /\ hv.ok /\ Len(hv.v) >= 1
    /\ HasPrefix(hv.v[1], BearerPrefix)
    /\ Len(hv.v[1]) > Len(BearerPrefix)

\* C3: for a well-formed Authorization header, AccessTokenHandler calls the
\* next handler, and the token in the context it passes on is the header
\* value with "Bearer " removed once from its start: putting the prefix
\* back gives the header value.
C3_TokenIsHeaderMinusPrefix ==
    \A r \in Reqs :
        WellFormed(req[r].auth) =>
            /\ obs[r].gate # "rejected"
            /\ \A k \in 1..Len(stack[r]) :
                 Behind(r, k, "AccessTokenHandler") =>
                    /\ stack[r][k].ctx.token.set
                    /\ BearerPrefix \o stack[r][k].ctx.token.Token = req[r].auth.v[1]
            /\ (obs[r].termCalls > 0 /\ HasStage(r, "AccessTokenHandler")) =>
                 BearerPrefix \o obs[r].tokenSeen.Token = req[r].auth.v[1]

\* C3 witness: the terminal handler has read a token that itself starts
\* with "Bearer ", from the header "Bearer Bearer abc".
C3_Witness ==
    \E r \in Reqs :
        /\ obs[r].termCalls > 0 /\ HasStage(r, "AccessTokenHandler")
        /\ req[r].auth.v = <<BearerPrefix \o BearerPrefix \o Abc>>
        /\ obs[r].tokenSeen.Token = BearerPrefix \o Abc

\* C4: a handler wrapped by AccessTokenHandler runs only with a context
\* that holds an access token with a non-empty string and the bearer type
\* tag; after a failed extraction nothing behind AccessTokenHandler runs,
\* and AccessTokenHandler is entered once at most.
C4_WrappedRunsOnlyWithToken ==
    \A r \in Reqs :
        /\ \A k \in 1..Len(stack[r]) :
             Behind(r, k, "AccessTokenHandler") =>
                /\ stack[r][k].ctx.token.set
                /\ stack[r][k].ctx.token.Token # Empty
                /\ stack[r][k].ctx.token.TokenType = BearerTokenType
                /\ obs[r].gate = "passed"
        /\ (HasStage(r, "AccessTokenHandler") /\ obs[r].termCalls > 0) =>
             /\ obs[r].tokenSeen.set
             /\ obs[r].tokenSeen.Token # Empty
             /\ obs[r].tokenSeen.TokenType = BearerTokenType
        /\ \A a \in 1..Len(handler[r].stages) :
             handler[r].stages[a].h = "AccessTokenHandler" =>
                /\ Cardinality({n \in 1..Len(trace[r]) : trace[r][n] = <<"in", a>>}) <= 1
                /\ obs[r].gate = "rejected" =>
                     ~\E n \in 1..Len(trace[r]) : trace[r][n] = <<"in", a + 1>>

\* C4 witness: the terminal handler is about to run behind
\* AccessTokenHandler, with the token "abc" in its context.
C4_Witness ==
    \E r \in Reqs :
        /\ Entering(r, "createMovieHandler")
        /\ Behind(r, Len(stack[r]), "AccessTokenHandler")
        /\ Top(r).ctx.token.Token = Abc

\* Whether chain i was built with LoggerHandlerChain, itself or a chain it
\* was derived from.
RECURSIVE FromLogger(_, _)
FromLogger(lin, i) ==
    IF i = 0 THEN FALSE ELSE lin[i].op = "Logger" \/ FromLogger(lin, lin[i].c)

\* The values a logger context or a log line gives to a key.
FieldValues(fields, key) ==
    { fields[n][2] : n \in {m \in 1..Len(fields) : fields[m][1] = key} }
\* The access-log lines of request r.
AccessLines(r) == {n \in 1..Len(out) : out[n].req = r /\ out[n].level = "info"}
Succeeded(r) ==
    st[r] = "done" /\ resp[r].status = 200 /\ resp[r].body.kind = "envelope"

\* C5: for a request served by a chain built with LoggerHandlerChain, the
\* request_id of the response body is the request_id recorded in the
\* access-log line of that request: there is such a line, and it carries
\* that one value.
C5_BodyIDIsAccessLogID ==
    \A r \in Reqs :
        (/\ st[r] = "done" /\ FromLogger(lineage, handler[r].chain)
         /\ resp[r].body.kind = "envelope") =>
            /\ "request_id" \in resp[r].body.keys
            /\ AccessLines(r) # {}
            /\ \A n \in AccessLines(r) :
                 FieldValues(out[n].ctx, "request_id") = {resp[r].body.request_id}

\* C5 witness: a request has completed with an envelope body and an
\* access-log line, on a chain where AccessHandler stands before
\* RequestIDHandler.
C5_Witness ==
    \E r \in Reqs :
        /\ Succeeded(r) /\ AccessLines(r) # {}
        /\ \E a, b \in 1..Len(handler[r].stages) :
             /\ a < b
             /\ handler[r].stages[a].h = "AccessHandler"
             /\ handler[r].stages[b].h = "RequestIDHandler"

\* C6: for a successful request served by a chain built with
\* LoggerHandlerChain, the request_id of the response body is the value of
\* the Request-Id response header, and it is the identifier that every
\* middleware behind LoggerHandlerChain finds in the request context.
C6_BodyIDIsHeaderAndContextID ==
    \A r \in Reqs :
        FromLogger(lineage, handler[r].chain) =>
            /\ \A k \in 1..Len(stack[r]) :
                 Behind(r, k, "RequestIDHandler") =>
                    /\ IDFromRequest(stack[r][k].ctx).ok
                    /\ resp[r].header["Request-Id"] = <<IDString(stack[r][k].ctx.id)>>
            /\ Succeeded(r) =>
                 /\ resp[r].header["Request-Id"] = <<resp[r].body.request_id>>
                 /\ HasStage(r, "requestIDMiddleware") =>
                      obs[r].requestID = resp[r].body.request_id

\* C6 witness: a successful request whose chain holds the middleware of the
\* tests that reads the identifier.
C6_Witness ==
    \E r \in Reqs :
        /\ Succeeded(r) /\ HasStage(r, "requestIDMiddleware")
        /\ obs[r].requestID # Empty

\* C7: NewStandardResponse on a request whose context holds no correlation
\* identifier returns no envelope and an error whose kind is the
\* unclassified one, which the mapper answers with status 500.
C7_NoIDIsInternalError ==
    \A r \in Reqs :
        (obs[r].called /\ ~IDFromRequest(obs[r].ctx).ok) =>
            /\ obs[r].res.nil
            /\ obs[r].res.sr = NilResponse
            /\ obs[r].res.err # NilError
            /\ obs[r].res.err.Kind \in {"Other", "Internal"}
            /\ StatusOf(obs[r].res.err.Kind) = 500
            /\ resp[r].status = 500

\* C7 witness: the terminal handler of a chain without the logging handlers
\* has called NewStandardResponse.
C7_Witness ==
    \E r \in Reqs :
        /\ st[r] = "done" /\ obs[r].called /\ obs[r].ctx.id = 0
        /\ ~HasStage(r, "RequestIDHandler")

\* A string that is the escaped form of path p: validly encoded, decoding
\* to p, and without a query.
IsEscapedPathOf(e, p) ==
    /\ ValidEncoded(e)
    /\ Unescape(e).ok /\ Unescape(e).val = p
    /\ \A n \in 1..Len(e) : e[n] # "?"

\* C8: NewStandardResponse on a request whose context holds a correlation
\* identifier returns a nil error and an envelope whose request_id is that
\* identifier, whose path is the escaped URL path without the query, and
\* whose data is the payload it was given.
C8_EnvelopeFields ==
    \A r \in Reqs :
        (obs[r].called /\ IDFromRequest(obs[r].ctx).ok) =>
            /\ ~obs[r].res.nil
            /\ obs[r].res.err = NilError
            /\ obs[r].res.sr.RequestID = IDString(obs[r].ctx.id)
            /\ IsEscapedPathOf(obs[r].res.sr.Path, req[r].url.Path)
            /\ obs[r].res.sr.Data = req[r].outcome.d

\* C8 witness: an envelope was built for a URL whose path needs escaping and
\* that has a query.
C8_Witness ==
    \E r \in Reqs :
        /\ obs[r].called /\ ~obs[r].res.nil
        /\ req[r].url.Path = <<"/", "a", " ", "b">> /\ req[r].url.RawQuery # Empty
        /\ obs[r].res.sr.Path = <<"/", "a", "%", "2", "0", "b">>
        /\ obs[r].res.sr.Data = "movie2"

\* A trace that enters stages 1..k in order and then leaves them in the
\* reverse order, k first.
WellNested(t) ==
    \E k \in 0..Len(t) :
        /\ Len(t) <= 2 * k
        /\ \A n \in 1..k : t[n] = <<"in", n>>
        /\ \A n \in (k + 1)..Len(t) : t[n] = <<"out", 2 * k + 1 - n>>

\* C9: the stages of a handler are the chain's middleware in the declared
\* order and then the terminal handler; a request enters them in that order
\* and they return in the reverse order; only the innermost stage entered
\* runs, the others wait for it; and a request that no middleware cut short
\* enters every stage and leaves every stage.
C9_DeclaredOrderInReverseOrderOut ==
    \A r \in Reqs :
        st[r] \in {"running", "done"} =>
            /\ handler[r].stages =
                 Declared(lineage, handler[r].chain) \o <<createMovieHandler>>
            /\ WellNested(trace[r])
            /\ \A k \in 1..Len(stack[r]) :
                 /\ stack[r][k].idx = k
                 /\ k < Len(stack[r]) => stack[r][k].pc = "called"
            /\ (st[r] = "done" /\ obs[r].gate # "rejected") =>
                 /\ Len(trace[r]) = 2 * Len(handler[r].stages)
                 /\ obs[r].termCalls = 1

\* C9 witness: a request has gone through the nine middleware of the chain
\* of the tests and the terminal handler, and all of them have returned.
C9_Witness ==
    \E r \in Reqs :
        /\ st[r] = "done" /\ Len(handler[r].stages) = 10
        /\ Len(trace[r]) = 20
        /\ trace[r][10] = <<"in", 10>> /\ trace[r][11] = <<"out", 10>>
        /\ trace[r][20] = <<"out", 1>>

\* C10: appending to a chain yields a new chain and leaves the chain it was
\* built from as it was: every chain holds the middleware it was declared
\* with and no other, every route runs those of its own chain, and a route
\* whose chain was declared without AccessTokenHandler never rejects a
\* request for lacking a token.
C10_AppendLeavesPrefixUnchanged ==
    /\ Len(chains) = Len(lineage)
    /\ \A i \in 1..Len(chains) : chains[i] = Declared(lineage, i)
    /\ \A rt \in routes :
         rt.stages = Declared(lineage, rt.chain) \o <<createMovieHandler>>
    /\ \A r \in Reqs :
         (/\ st[r] = "done"
          /\ \A k \in 1..Len(Declared(lineage, handler[r].chain)) :
               Declared(lineage, handler[r].chain)[k] # AccessTokenHandler) =>
            /\ obs[r].gate = "none"
            /\ obs[r].termCalls = 1
            /\ resp[r].status # 401

\* C10 witness: two routes extend the same chain, one with
\* AccessTokenHandler and one without, and a request without an
\* Authorization header has been served by the one without.
C10_Witness ==
    \E r \in Reqs : \E rt \in routes :
        /\ st[r] = "done" /\ ~req[r].auth.ok
        /\ rt.chain # handler[r].chain
        /\ lineage[rt.chain].c = lineage[handler[r].chain].c
        /\ lineage[rt.chain].ms = <<AccessTokenHandler>>
        /\ lineage[handler[r].chain].ms = <<JSONContentTypeHandler>>
        /\ obs[r].termCalls = 1

\* Whether chain i starts with the middleware of LoggerHandlerChain: the
\* first thing done to the empty chain it descends from was
\* LoggerHandlerChain.
RECURSIVE LoggerFirst(_, _)
LoggerFirst(lin, i) ==
    IF i = 0 THEN FALSE
    ELSE IF lin[i].op = "Logger" /\ lin[i].c # 0 /\ lin[lin[i].c].op = "New" THEN TRUE
    ELSE LoggerFirst(lin, lin[i].c)

\* The stages that are not hlog handlers: the middleware of this package,
\* of the caller, and the terminal handler.
LaterStages ==
    {"AccessTokenHandler", "JSONContentTypeHandler", "requestIDMiddleware",
     "createMovieHandler"}

\* C11: in a chain whose first middleware are those of LoggerHandlerChain,
\* the request context holds the correlation identifier whenever
\* AccessTokenHandler, JSONContentTypeHandler, a middleware of the caller or
\* the terminal handler runs, and NewStandardResponse does not fail.
C11_IDPresentBehindLoggerChain ==
    \A r \in Reqs :
        (st[r] # "pending" /\ LoggerFirst(lineage, handler[r].chain)) =>
            /\ \A k \in 1..Len(stack[r]) :
                 handler[r].stages[stack[r][k].idx].h \in LaterStages =>
                    IDFromRequest(stack[r][k].ctx).ok
            /\ ~obs[r].fatal /\ st[r] # "aborted"
            /\ obs[r].called =>
                 /\ IDFromRequest(obs[r].ctx).ok
                 /\ ~obs[r].res.nil /\ obs[r].res.err = NilErr

\* C11 witness: on the chain of the tests, the middleware of the caller has
\* read the identifier and NewStandardResponse has returned an envelope.
C11_Witness ==
    \E r \in Reqs :
        /\ LoggerFirst(lineage, handler[r].chain)
        /\ HasStage(r, "requestIDMiddleware") /\ HasStage(r, "AccessTokenHandler")
        /\ obs[r].called /\ ~obs[r].res.nil
        /\ obs[r].res.sr.RequestID = obs[r].requestID

\* C12: every response of a pipeline that holds JSONContentTypeHandler, the
\* 401 of AccessTokenHandler included, carries the header
\* Content-Type: application/json.
C12_EveryResponseIsJSON ==
    \A r \in Reqs :
        (HasStage(r, "JSONContentTypeHandler") /\ resp[r].status # 0) =>
            resp[r].header["Content-Type"] = <<"application/json">>

\* C13: DecoderErr turns io.EOF into an error of kind InvalidRequest with
\* the message "Request Body cannot be empty", and io.ErrUnexpectedEOF into
\* one of kind InvalidRequest with the message "Malformed JSON"; the
\* request is answered with status 400.
C13_EOFsAreInvalidRequest ==
    \A r \in Reqs :
        (obs[r].termCalls > 0 /\ req[r].outcome.t = "decode") =>
            /\ req[r].outcome.err.Err = "EOF" =>
                 /\ obs[r].decoded =
                      [Kind |-> "InvalidRequest", Err |-> "Request Body cannot be empty"]
                 /\ resp[r].status = 400
            /\ req[r].outcome.err.Err = "unexpected EOF" =>
                 /\ obs[r].decoded = [Kind |-> "InvalidRequest", Err |-> "Malformed JSON"]
                 /\ resp[r].status = 400

\* C13 witness: a request whose body ended early was answered 400, and one
\* whose body was empty can be told from it by the message.
C13_Witness ==
    \E r \in Reqs :
        /\ st[r] = "done" /\ req[r].outcome.err = ErrUnexpectedEOF
        /\ req[r].outcome.t = "decode"
        /\ obs[r].decoded.Err = "Malformed JSON" /\ resp[r].status = 400

\* C14: DecoderErr of the nil error is nil, and DecoderErr of that result is
\* nil again; a request whose body decoded without an error is not answered
\* with a decode error.
C14_NilStaysNil ==
    \A r \in Reqs :
        (obs[r].termCalls > 0 /\ req[r].outcome.t # "decode") =>
            /\ obs[r].decoded = NilErr
            /\ obs[r].again = NilErr
            /\ (req[r].outcome.t = "ok" /\ IDFromRequest(obs[r].ctx).ok) =>
                 (obs[r].err = NilErr /\ resp[r].status = 200)

\* C14 witness: a request whose body decoded was answered 200.
C14_Witness ==
    \E r \in Reqs :
        /\ st[r] = "done" /\ obs[r].termCalls = 1 /\ req[r].outcome.t = "ok"
        /\ obs[r].decoded = NilErr /\ obs[r].again = NilErr
        /\ resp[r].status = 200

\* C15: for a decode error that is neither nil, io.EOF nor
\* io.ErrUnexpectedEOF, DecoderErr returns a non-nil classified error whose
\* cause is the decode error and whose kind is the unclassified one, not
\* InvalidRequest.
C15_OtherErrorsKeepCauseAndKind ==
    \A r \in Reqs :
        (/\ obs[r].termCalls > 0 /\ req[r].outcome.t = "decode"
         /\ req[r].outcome.err \notin {NilErr, EOF, ErrUnexpectedEOF}) =>
            /\ obs[r].decoded # NilErr
            /\ obs[r].decoded.Err = req[r].outcome.err.Err
            /\ obs[r].decoded.Kind = "Other"
            /\ obs[r].err = obs[r].decoded
            /\ resp[r].status = 500

\* C15 witness: a request whose body held a value of the wrong type was
\* answered with the unclassified error that wraps the decoder's error.
C15_Witness ==
    \E r \in Reqs :
        /\ st[r] = "done" /\ req[r].outcome.t = "decode"
        /\ req[r].outcome.err = UnmarshalTypeErr
        /\ obs[r].decoded = [Kind |-> "Other", Err |-> "json: cannot unmarshal"]

\* The status the claim fixes for each kind of error.
FixedStatus(kind) ==
    CASE kind = "Unauthenticated" -> 401
      [] kind = "Unauthorized" -> 403
      [] kind = "InvalidRequest" -> 400
      [] kind = "NotFound" -> 404
      [] kind = "Conflict" -> 409
      [] kind \in {"Internal", "Other"} -> 500

\* C16: an error handed to the HTTP mapper is answered with the status
\* fixed for its kind (401, 403, 400, 404, 409, and 500 for an internal or
\* unclassified one), with an empty body exactly when the kind is
\* Unauthenticated or Unauthorized; so the rejection of AccessTokenHandler
\* is a 401 without body, and the failure of NewStandardResponse a 500 with
\* an error body.
C16_StatusFixedByKind ==
    \A r \in Reqs :
        /\ obs[r].gate = "rejected" =>
             (resp[r].status = 401 /\ resp[r].body = NoBody)
        /\ (obs[r].termCalls > 0 /\ obs[r].err # NilErr) =>
             /\ obs[r].err.Kind \in Kinds
             /\ resp[r].status = FixedStatus(obs[r].err.Kind)
             /\ (resp[r].body = NoBody) <=>
                  (obs[r].err.Kind \in {"Unauthenticated", "Unauthorized"})
             /\ resp[r].body # NoBody =>
                  (resp[r].body.kind = "error" /\ resp[r].body.error = obs[r].err.Kind)
        /\ (obs[r].called /\ obs[r].res.nil) =>
             (resp[r].status = 500 /\ resp[r].body.kind = "error")

\* C16 witness: a conflict reported by a collaborator was answered 409 with
\* an error body.
C16_Witness ==
    \E r \in Reqs :
        /\ st[r] = "done" /\ obs[r].err.Kind = "Conflict"
        /\ resp[r].status = 409 /\ resp[r].body.kind = "error"

\* The stages of r's handler that are h.
StagesOf(r, h) == {a \in 1..Len(handler[r].stages) : handler[r].stages[a].h = h}

\* C17: for a request served by a chain built with LoggerHandlerChain there
\* is one access-log line and no more; it is written once every stage
\* behind AccessHandler has returned, and it carries the status of the
\* response, 401 when AccessTokenHandler cut the request short.
C17_OneAccessLineWithFinalStatus ==
    \A r \in Reqs :
        (st[r] # "pending" /\ FromLogger(lineage, handler[r].chain)) =>
            /\ Cardinality(AccessLines(r)) <= 1
            /\ AccessLines(r) # {} =>
                 \A k \in 1..Len(stack[r]) : \A a \in StagesOf(r, "AccessHandler") :
                    stack[r][k].idx < a
            /\ st[r] = "done" =>
                 /\ Cardinality(AccessLines(r)) = 1
                 /\ \A n \in AccessLines(r) :
                      /\ FieldValues(out[n].ev, "status") = {resp[r].status}
                      /\ obs[r].gate = "rejected" =>
                           FieldValues(out[n].ev, "status") = {401}

\* C17 witness: a request that AccessTokenHandler rejected has completed,
\* and its access-log line records status 401.
C17_Witness ==
    \E r \in Reqs :
        /\ st[r] = "done" /\ obs[r].gate = "rejected"
        /\ \E n \in AccessLines(r) : FieldValues(out[n].ev, "status") = {401}

\* The requests that have been started.
Started == {q \in Reqs : st[q] \notin {"absent", "pending"}}

\* C18: in a request served by a chain built with LoggerHandlerChain the
\* identifier is generated once, by RequestIDHandler: one identifier is
\* issued per request, every stage behind RequestIDHandler runs with that
\* identifier in its context, and what the middleware of the caller and
\* NewStandardResponse read is that identifier.
C18_IDGeneratedOnceAndKept ==
    /\ Cardinality(issued) <= Cardinality(Started)
    /\ \A r \in Reqs :
        (st[r] # "pending" /\ FromLogger(lineage, handler[r].chain)) =>
            /\ \A a \in StagesOf(r, "RequestIDHandler") :
                 Cardinality({n \in 1..Len(trace[r]) : trace[r][n] = <<"in", a>>}) <= 1
            /\ \A k \in 1..Len(stack[r]) :
                 Behind(r, k, "RequestIDHandler") =>
                    /\ stack[r][k].ctx.id \in issued
                    /\ resp[r].header["Request-Id"] = <<IDString(stack[r][k].ctx.id)>>
                    /\ \A j \in 1..Len(stack[r]) :
                         Behind(r, j, "RequestIDHandler") =>
                            stack[r][j].ctx.id = stack[r][k].ctx.id
            /\ obs[r].requestID # Empty =>
                 <<obs[r].requestID>> = resp[r].header["Request-Id"]
            /\ obs[r].termCalls > 0 =>
                 /\ <<IDString(obs[r].ctx.id)>> = resp[r].header["Request-Id"]
                 /\ (obs[r].called /\ obs[r].requestID # Empty) =>
                      obs[r].res.sr.RequestID = obs[r].requestID

\* C18 witness: the terminal handler runs behind AccessTokenHandler and
\* JSONContentTypeHandler with the identifier RequestIDHandler issued.
C18_Witness ==
    \E r \in Reqs :
        /\ Entering(r, "createMovieHandler")
        /\ Behind(r, Len(stack[r]), "AccessTokenHandler")
        /\ Behind(r, Len(stack[r]), "JSONContentTypeHandler")
        /\ Behind(r, Len(stack[r]), "RequestIDHandler")
        /\ issued = {Top(r).ctx.id}
        /\ obs[r].requestID = IDString(Top(r).ctx.id)

\* The first value of an Authorization header, or the empty string.
FirstValue(hv) == IF hv.ok /\ Len(hv.v) >= 1 THEN hv.v[1] ELSE Empty

\* C19: when several requests are served at once by one chain, in any
\* interleaving of their steps, what runs behind AccessTokenHandler for a
\* request holds the token of that request's own Authorization header, the
\* identifier in a request's context is the one issued for that request
\* (the one of its Request-Id header), and no two requests hold the same
\* identifier; the terminal handler reads these and no others.
C19_ContextIsPrivateToRequest ==
    \A r \in Reqs :
        /\ \A k \in 1..Len(stack[r]) :
             /\ Behind(r, k, "AccessTokenHandler") =>
                  BearerPrefix \o stack[r][k].ctx.token.Token = FirstValue(req[r].auth)
             /\ Behind(r, k, "RequestIDHandler") =>
                  /\ resp[r].header["Request-Id"] = <<IDString(stack[r][k].ctx.id)>>
                  /\ \A q \in Reqs \ {r} : \A j \in 1..Len(stack[q]) :
                       stack[q][j].ctx.id # stack[r][k].ctx.id
        /\ obs[r].termCalls > 0 =>
             /\ BearerPrefix \o obs[r].tokenSeen.Token = FirstValue(req[r].auth)
             /\ resp[r].header["Request-Id"] = <<IDString(obs[r].ctx.id)>>
             /\ \A q \in Reqs \ {r} :
                  obs[q].termCalls > 0 => obs[q].ctx.id # obs[r].ctx.id

\* C19 witness: two requests with different tokens are both about to run
\* the terminal handler, each with its own token and identifier.
C19_Witness ==
    \E r, q \in Reqs :
        /\ r # q
        /\ Entering(r, "createMovieHandler") /\ Entering(q, "createMovieHandler")
        /\ Top(r).ctx.token.Token = Abc
        /\ Top(q).ctx.token.Token = Abc \o Abc
        /\ Top(r).ctx.id # Top(q).ctx.id

\* The fields of the logger handed to LoggerHandlerChain.
Template == << <<"service", "api">> >>
\* The keys of the fields added during a request.
RequestKeys == {"remote_ip", "user_agent", "referer", "request_id"}
\* What request r may have under each key: its own value, when it has one.
OwnValues(r, key) ==
    CASE key = "remote_ip" -> {req[r].meta.remote} \ {""}
      [] key = "user_agent" -> {req[r].meta.ua} \ {""}
      [] key = "referer" -> {req[r].meta.referer} \ {""}
      [] key = "request_id" -> {resp[r].header["Request-Id"][n] :
                                  n \in 1..Len(resp[r].header["Request-Id"])}

\* C20: the logger handed to LoggerHandlerChain stays as it was, without
\* any of the fields remote_ip, user_agent, referer and request_id; these
\* go to the logger derived for the request, which starts from the fields
\* of the template, and every log line of a request carries under these
\* keys the values of that request only, whatever other requests are served
\* at the same time or before.
C20_TemplateLoggerIsOnlyRead ==
    /\ tmpl = Template
    /\ \A key \in RequestKeys : FieldValues(tmpl, key) = {}
    /\ \A r \in Reqs : \A k \in 1..Len(loggers[r]) :
         /\ SubSeq(loggers[r][k], 1, Len(Template)) = Template
         /\ \A key \in RequestKeys :
              FieldValues(loggers[r][k], key) \subseteq OwnValues(r, key)
    /\ \A n \in 1..Len(out) : \A key \in RequestKeys :
         FieldValues(out[n].ctx, key) \subseteq OwnValues(out[n].req, key)

\* C20 witness: the log holds the access line of one request and, after it,
\* a line of another request, each with its own remote_ip and request_id.
C20_Witness ==
    \E n, m \in 1..Len(out) :
        /\ n < m /\ out[n].req # out[m].req
        /\ out[n].level = "info"
        /\ FieldValues(out[n].ctx, "remote_ip") # {}
        /\ FieldValues(out[m].ctx, "remote_ip") # {}
        /\ FieldValues(out[n].ctx, "remote_ip") # FieldValues(out[m].ctx, "remote_ip")
        /\ FieldValues(out[n].ctx, "request_id") # FieldValues(out[m].ctx, "request_id")
        /\ FieldValues(out[m].ctx, "request_id") # {}

\* C21: AccessTokenHandler hands the token on in a new request value: the
\* context of the request it received stays without a token, so no stage
\* before AccessTokenHandler, nor AccessTokenHandler's own frame, holds a
\* token in its context, neither while the stages behind it run nor once
\* they have returned; the context it passes on differs from the one it
\* received by the token only.
C21_TokenPropagatedByReplacement ==
    \A r \in Reqs : \A k \in 1..Len(stack[r]) :
        /\ ~Behind(r, k, "AccessTokenHandler") => stack[r][k].ctx.token = NoToken
        /\ (k > 1 /\ handler[r].stages[stack[r][k - 1].idx].h = "AccessTokenHandler") =>
             /\ stack[r][k].ctx.token.set
             /\ [stack[r][k].ctx EXCEPT !.token = NoToken] = stack[r][k - 1].ctx

\* C21 witness: the stages behind AccessTokenHandler have returned, the
\* terminal handler has read the token "abc", and the frame of
\* AccessTokenHandler, behind JSONContentTypeHandler, holds no token.
C21_Witness ==
    \E r \in Reqs :
        /\ Returning(r) /\ Cur(r).h = "AccessTokenHandler"
        /\ Behind(r, Len(stack[r]), "JSONContentTypeHandler")
        /\ obs[r].termCalls = 1 /\ obs[r].tokenSeen.Token = Abc
        /\ Top(r).ctx.token = NoToken

\* How often request r has entered stage a.
Ins(r, a) == Cardinality({n \in 1..Len(trace[r]) : trace[r][n] = <<"in", a>>})

\* The step of JSONContentTypeHandler for request r: the value
\* application/json is added to Content-Type, the next stage is entered
\* with the context of the request received, and nothing else changes.
JSONStepOnly(r) ==
    /\ resp' = [resp EXCEPT ![r].header["Content-Type"] = Append(@, "application/json")]
    /\ Len(stack'[r]) = Len(stack[r]) + 1
    /\ SubSeq(stack'[r], 1, Len(stack[r]) - 1) = SubSeq(stack[r], 1, Len(stack[r]) - 1)
    /\ stack'[r][Len(stack[r])] = [Top(r) EXCEPT !.pc = "called"]
    /\ stack'[r][Len(stack[r]) + 1] =
         [idx |-> Top(r).idx + 1, ctx |-> Top(r).ctx, pc |-> "enter"]
    /\ st' = st /\ req' = req /\ obs' = obs /\ loggers' = loggers
    /\ out' = out /\ issued' = issued /\ tmpl' = tmpl /\ handler' = handler

\* C22: JSONContentTypeHandler has one way through: whenever it runs for
\* a request, its step adds application/json to the Content-Type header of
\* the response, enters the next handler with the request it received, and
\* changes nothing else; the next handler is entered once, and a request
\* that entered JSONContentTypeHandler has entered the handler behind it by
\* the time JSONContentTypeHandler returns.
C22_JSONContentTypeHandlerOnlyAddsHeader ==
    /\ [][\A r \in Reqs :
            (Entering(r, "JSONContentTypeHandler") /\ stack'[r] # stack[r]) =>
                JSONStepOnly(r)]_vars
    /\ [](\A r \in Reqs : \A a \in StagesOf(r, "JSONContentTypeHandler") :
            /\ Ins(r, a + 1) <= 1
            /\ (Ins(r, a) = 1 /\ ~Entering(r, "JSONContentTypeHandler")) =>
                 /\ Ins(r, a + 1) = 1
                 /\ "application/json" \in
                      {resp[r].header["Content-Type"][n] :
                         n \in 1..Len(resp[r].header["Content-Type"])})

\* C22 witness: the handler behind JSONContentTypeHandler is about to run
\* on a chain where AccessTokenHandler comes first, with the header set and
\* the token still in its context.
C22_Witness ==
    \E r \in Reqs :
        /\ Len(stack[r]) > 1 /\ Top(r).pc = "enter"
        /\ handler[r].stages[Top(r).idx - 1].h = "JSONContentTypeHandler"
        /\ Behind(r, Len(stack[r]), "AccessTokenHandler")
        /\ resp[r].header["Content-Type"] = <<"application/json">>
        /\ Top(r).ctx.token.Token = Abc
        /\ resp[r].status = 0

\* A request with more than one Authorization value.
SeveralValues(hv) == hv.ok /\ Len(hv.v) >= 2
\* What is left of a value once a leading "Bearer " is cut off.
WithoutBearer(v) ==
    IF HasPrefix(v, BearerPrefix) THEN SubSeq(v, Len(BearerPrefix) + 1, Len(v)) ELSE v

\* C23: for a request with several Authorization values AccessTokenHandler
\* decides on the first one: when the first value is empty or exactly
\* "Bearer " the request is answered 401 and nothing behind
\* AccessTokenHandler runs, whatever the later values are; otherwise the
\* request passes, and the token stored is what the first value leaves
\* once a leading "Bearer " is cut off.
C23_FirstAuthorizationValueDecides ==
    \A r \in Reqs :
        (HasStage(r, "AccessTokenHandler") /\ SeveralValues(req[r].auth)) =>
            IF req[r].auth.v[1] \in {Empty, BearerPrefix}
            THEN /\ obs[r].gate # "passed"
                 /\ obs[r].termCalls = 0
                 /\ \A k \in 1..Len(stack[r]) : ~Behind(r, k, "AccessTokenHandler")
                 /\ obs[r].gate = "rejected" =>
                      (resp[r].status = 401 /\ resp[r].body = NoBody)
                 /\ st[r] = "done" => obs[r].gate = "rejected"
            ELSE /\ obs[r].gate # "rejected"
                 /\ \A k \in 1..Len(stack[r]) :
                      Behind(r, k, "AccessTokenHandler") =>
                         stack[r][k].ctx.token.Token = WithoutBearer(req[r].auth.v[1])
                 /\ obs[r].termCalls > 0 =>
                      obs[r].tokenSeen.Token = WithoutBearer(req[r].auth.v[1])
                 /\ st[r] = "done" => (obs[r].gate = "passed" /\ resp[r].status # 401)

\* C23 witness: a request whose first Authorization value is "Bearer " and
\* whose second is "Bearer abc" has been answered 401.
C23_Witness ==
    \E r \in Reqs :
        /\ st[r] = "done" /\ obs[r].gate = "rejected"
        /\ req[r].auth.v = <<BearerPrefix, BearerPrefix \o Abc>>
        /\ resp[r].status = 401 /\ obs[r].termCalls = 0
====
